---- MODULE Spec2Model ----
(***************************************************************************)
(* Model of Trajectory_Mining/Text_Analysis/Feature_Space/comp_distance.py *)
(* : the batch pipeline that loads the killmail table, groups it by        *)
(* character_id, sorts each group by killmail_id, scores every adjacent    *)
(* pair of item lists with two per-pair TF-IDF cosine similarities and     *)
(* writes the augmented table.                                             *)
(*                                                                         *)
(* Python values are tagged records.  A text is a sequence of one-char     *)
(* strings.  A call either returns a value or raises an exception.         *)
(***************************************************************************)
EXTENDS Integers, Sequences, FiniteSets, TLC

VARIABLES
    csv,        \* data/all_victims_complete.csv: [columns, rows]
    pc,         \* the statement of the script that runs next
    err,        \* the exception that ended the run, "" when none
    df,         \* the DataFrame df
    groupby,    \* the groups of df.groupby('character_id'), in iteration order
    num_groups, \* len(groupby)
    count,      \* number of groups processed so far
    groups,     \* the list of finished group DataFrames
    df_res,     \* pd.concat(groups)
    out,        \* data/all_victims_distances.csv, NoFile until written
    writes,     \* number of times the output file was written
    los1,       \* first argument of a standalone score call
    los2,       \* second argument of a standalone score call
    ret_lt,     \* outcome of get_long_text_cosine_distance(los1, los2)
    ret_st      \* outcome of get_short_text_cosine_distance(los1, los2)

vars == <<csv, pc, err, df, groupby, num_groups, count, groups, df_res, out,
          writes, los1, los2, ret_lt, ret_st>>

pipeVars == <<csv, pc, err, df, groupby, num_groups, count, groups, df_res,
              out, writes>>
callVars == <<los1, los2, ret_lt, ret_st>>

----------------------------------------------------------------------------
(* Bounds *)

\* longest input table
MaxRows == 3
\* longest item list handed to a standalone score call
MaxItems == 2
\* longest input table whose header lacks an ISK column
MaxRowsPartial == 1

----------------------------------------------------------------------------
(* Outcomes of a call *)

Return(v) == [kind |-> "return", value |-> v, exc |-> ""]
Raise(e) == [kind |-> "raise", value |-> <<>>, exc |-> e]
NotCalled == [kind |-> "none", value |-> <<>>, exc |-> ""]

----------------------------------------------------------------------------
(* Python values held by the items column *)

\* a float cell value; np.nan is the one read_csv and shift() produce
PyFloat == [type |-> "float", val |-> <<>>]
\* any int
PyInt == [type |-> "int", val |-> <<>>]
\* a list of items, each item a pair <<long text, short text>>
PyList(s) == [type |-> "list", val |-> s]
\* a str cell as read_csv yields it; lit is the Python literal the text
\* spells, [type |-> "name"] when the text spells no literal
PyStr(lit) == [type |-> "str", val |-> <<>>, lit |-> lit]

\* scores: the int 0 of the early returns, np.nan, and a float num/sqrt(densq)
Int0 == [type |-> "int", nan |-> FALSE, num |-> 0, densq |-> 1]
np_nan == [type |-> "float", nan |-> TRUE, num |-> 0, densq |-> 1]
Float(n, d) == [type |-> "float", nan |-> FALSE, num |-> n, densq |-> d]

----------------------------------------------------------------------------
(* Texts *)

T_GunII == <<"G", "u", "n", " ", "I", "I">>
T_gun == <<"g", "u", "n">>
T_GUN == <<"G", "U", "N">>
T_Ax == <<"A", "x">>
T_X == <<"X">>
T_Dash == <<"-">>

ItemA == <<T_GunII, T_gun>>
ItemB == <<T_Ax, T_X>>
ItemC == <<T_GUN, T_Ax>>
ItemD == <<T_X, T_Dash>>

\* str.lower() on one character
lower(c) ==
    CASE c = "G" -> "g"
      [] c = "U" -> "u"
      [] c = "N" -> "n"
      [] c = "I" -> "i"
      [] c = "A" -> "a"
      [] c = "X" -> "x"
      [] OTHER -> c

\* the characters \w matches
IsWordChar(c) == c \in {"g", "u", "n", "i", "a", "x", "G", "U", "N", "I", "A", "X"}

\* reduce(lambda x, y: f'{x} {y}', texts): the texts joined by single spaces
RECURSIVE reduce_join(_)
reduce_join(texts) ==
    IF Len(texts) = 1 THEN texts[1]
    ELSE reduce_join(SubSeq(texts, 1, Len(texts) - 1)) \o <<" ">> \o texts[Len(texts)]

\* TfidfVectorizer's default analyzer: lowercase, then every maximal run of
\* two or more word characters (token_pattern (?u)\b\w\w+\b)
RECURSIVE findall(_, _, _, _)
findall(doc, i, run, acc) ==
    LET closed == IF Len(run) >= 2 THEN Append(acc, run) ELSE acc IN
    IF i > Len(doc) THEN closed
    ELSE IF IsWordChar(doc[i]) THEN findall(doc, i + 1, Append(run, lower(doc[i])), acc)
    ELSE findall(doc, i + 1, <<>>, closed)

analyze(doc) == findall(doc, 1, <<>>, <<>>)

\* term frequency of term t in a token sequence
tf(t, toks) == Cardinality({i \in 1..Len(toks) : toks[i] = t})

RECURSIVE SumF(_)
SumF(f) ==
    IF DOMAIN f = {} THEN 0
    ELSE LET t == CHOOSE x \in DOMAIN f : TRUE
         IN f[t] + SumF([x \in DOMAIN f \ {t} |-> f[x]])

\* smoothed idf, ln((1 + 2) / (1 + df)) + 1, in tenths: 1.0 for a term of
\* both documents, 1.4 for a term of one document
IdfBoth == 10
IdfOne == 14

\* the TF-IDF matrix of two token sequences.  A row is the unnormalised
\* weight vector w with sq, its squared length; the L2-normalised row it stands
\* for is w / sqrt(sq) (a zero row stays zero).  An empty vocabulary raises
\* ValueError.
tfidf_rows(toks1, toks2) ==
    LET vocabulary == {toks1[i] : i \in 1..Len(toks1)} \cup {toks2[i] : i \in 1..Len(toks2)}
        idf(t) == IF tf(t, toks1) > 0 /\ tf(t, toks2) > 0 THEN IdfBoth ELSE IdfOne
        w1 == [t \in vocabulary |-> tf(t, toks1) * idf(t)]
        w2 == [t \in vocabulary |-> tf(t, toks2) * idf(t)]
    IN IF vocabulary = {} THEN Raise("ValueError: empty vocabulary")
       ELSE Return(<<[w |-> w1, sq |-> SumF([t \in vocabulary |-> w1[t] * w1[t]])],
                     [w |-> w2, sq |-> SumF([t \in vocabulary |-> w2[t] * w2[t]])]>>)

\* TfidfVectorizer().fit_transform([doc1, doc2])
fit_transform(doc1, doc2) == tfidf_rows(analyze(doc1), analyze(doc2))

\* linear_kernel(tfidf[0:1], tfidf[1:2]).flatten()[0]: the dot product of the
\* two normalised rows
linear_kernel(r1, r2) ==
    Float(SumF([t \in DOMAIN r1.w |-> r1.w[t] * r2.w[t]]), r1.sq * r2.sq)

\* the bag of words of an item list: reduce(..., [x[field - 1] for x in los])
document(los, field) == reduce_join([i \in 1..Len(los.val) |-> los.val[i][field]])

\* cos_dist of a fitted matrix; the vectorizer's exception passes through
cos_dist(tfidf) ==
    IF tfidf.kind = "raise" THEN tfidf
    ELSE Return(linear_kernel(tfidf.value[1], tfidf.value[2]))

\* the body shared by the two score functions; field is the element of each
\* item the document is built from (1 = x[0], 2 = x[1])
text_cosine_distance(a, b, field) ==
    IF a.type = "float" \/ b.type = "float" THEN Return(Int0)
    ELSE IF a.type # "list" THEN Raise("TypeError")
    ELSE IF Len(a.val) = 0 THEN Return(Int0)
    ELSE IF b.type # "list" THEN Raise("TypeError")
    ELSE IF Len(b.val) = 0 THEN Return(Int0)
    ELSE cos_dist(fit_transform(document(a, field), document(b, field)))

get_long_text_cosine_distance(a, b) == text_cosine_distance(a, b, 1)

get_short_text_cosine_distance(a, b) == text_cosine_distance(a, b, 2)

\* readings of a score
IsZero(s) == ~s.nan /\ s.num = 0
IsOne(s) == ~s.nan /\ s.num > 0 /\ s.num * s.num = s.densq
InUnit(s) == ~s.nan /\ s.num >= 0 /\ (s.num = 0 \/ s.num * s.num <= s.densq)

----------------------------------------------------------------------------
(* Standalone calls of the two score functions *)

Items == {ItemA, ItemB, ItemC, ItemD}

RECURSIVE SeqsUpTo(_, _)
SeqsUpTo(S, n) ==
    IF n = 0 THEN {<<>>}
    ELSE LET shorter == SeqsUpTo(S, n - 1)
         IN shorter \cup {Append(s, x) : s \in {t \in shorter : Len(t) = n - 1}, x \in S}

\* the values an items cell can hold after the conversion
ItemsValues == {PyFloat, PyInt} \cup {PyList(s) : s \in SeqsUpTo(Items, MaxItems)}

\* no file on disk, and a name not yet bound to a frame
NoFile == [columns |-> <<>>, rows |-> <<>>, exists |-> FALSE]
NoFrame == [columns |-> <<>>, rows |-> <<>>]

PipelineIdle ==
    /\ csv = NoFile
    /\ pc = "idle"
    /\ err = ""
    /\ df = NoFrame
    /\ groupby = <<>>
    /\ num_groups = 0
    /\ count = 0
    /\ groups = <<>>
    /\ df_res = NoFrame
    /\ out = NoFile
    /\ writes = 0

CallInit ==
    /\ PipelineIdle
    /\ los1 \in ItemsValues
    /\ los2 \in ItemsValues
    /\ ret_lt = NotCalled
    /\ ret_st = NotCalled

CallLong ==
    /\ ret_lt = NotCalled
    /\ ret_lt' = get_long_text_cosine_distance(los1, los2)
    /\ UNCHANGED <<pipeVars, los1, los2, ret_st>>

CallShort ==
    /\ ret_st = NotCalled
    /\ ret_st' = get_short_text_cosine_distance(los1, los2)
    /\ UNCHANGED <<pipeVars, los1, los2, ret_lt>>

CallNext == CallLong \/ CallShort

ScoreSpec == CallInit /\ [][CallNext]_vars

----------------------------------------------------------------------------
(* The input file *)

\* a character_id: an integer, or the missing value of an empty cell
Key(n) == [nan |-> FALSE, v |-> n]
KeyNaN == [nan |-> TRUE, v |-> 0]

CharacterIds == {Key(1), Key(2), KeyNaN}
KillmailIds == {1, 2}

\* the items cells read_csv yields: np.nan for an empty cell, else the str
Cells == {PyFloat, PyStr(PyList(<<ItemA>>)), PyStr(PyList(<<ItemB>>))}

CsvRows == [character_id : CharacterIds, killmail_id : KillmailIds, items : Cells]

IskColumns == {"HighSlotISK", "MidSlotISK", "LowSlotISK"}
AllColumns ==
    <<"killmail_id", "character_id", "HighSlotISK", "MidSlotISK", "LowSlotISK", "items">>

\* every header that keeps the three required columns
Headers ==
    {SelectSeq(AllColumns, LAMBDA c : c \notin gone) : gone \in SUBSET IskColumns}

\* the files the runs start from: every table of up to MaxRows rows under the
\* full header, and every table of up to MaxRowsPartial rows under a header
\* that lacks some of the ISK columns
File(h, t) == [columns |-> h, rows |-> t, exists |-> TRUE]

InputFiles ==
    {File(AllColumns, t) : t \in SeqsUpTo(CsvRows, MaxRows)} \cup
    {File(h, t) : h \in Headers \ {AllColumns}, t \in SeqsUpTo(CsvRows, MaxRowsPartial)}

CallIdle ==
    /\ los1 = PyFloat
    /\ los2 = PyFloat
    /\ ret_lt = NotCalled
    /\ ret_st = NotCalled

Init ==
    /\ csv \in InputFiles
    /\ pc = "read_csv"
    /\ err = ""
    /\ df = NoFrame
    /\ groupby = <<>>
    /\ num_groups = 0
    /\ count = 0
    /\ groups = <<>>
    /\ df_res = NoFrame
    /\ out = NoFile
    /\ writes = 0
    /\ CallIdle

----------------------------------------------------------------------------
(* The library calls of the pipeline *)

\* pd.read_csv: one row per line; index is the RangeIndex label and line the
\* row's line in the file, which tells rows of equal content apart
read_csv(file) ==
    [columns |-> file.columns,
     rows |-> [i \in 1..Len(file.rows) |->
                 [line |-> i, index |-> i - 1,
                  character_id |-> file.rows[i].character_id,
                  killmail_id |-> file.rows[i].killmail_id,
                  items |-> file.rows[i].items]]]

\* faulty variant of drop: errors='ignore', absent labels are skipped
drop_ignore(frame, labels) ==
    Return([columns |-> SelectSeq(frame.columns, LAMBDA c : c \notin labels),
            rows |-> frame.rows])

\* DataFrame.drop(columns=labels), errors='raise': KeyError when a label is
\* not a column
drop(frame, labels) ==
    IF \E l \in labels : \A i \in 1..Len(frame.columns) : frame.columns[i] # l
    THEN Raise("KeyError")
    ELSE Return([columns |-> SelectSeq(frame.columns, LAMBDA c : c \notin labels),
                 rows |-> frame.rows])

\* ast.literal_eval: a str is parsed and must spell a literal; anything that
\* is neither a str nor a syntax node (a float) is a malformed node
literal_eval(node_or_string) ==
    IF node_or_string.type = "str" /\ node_or_string.lit.type \in {"list", "int", "float"}
    THEN Return([type |-> node_or_string.lit.type, val |-> node_or_string.lit.val])
    ELSE Raise("ValueError: malformed node or string")

\* Series.apply(literal_eval) over the items column: the first cell that
\* raises ends the call
apply_literal_eval(frame) ==
    LET res == [i \in 1..Len(frame.rows) |-> literal_eval(frame.rows[i].items)]
    IN IF \E i \in 1..Len(res) : res[i].kind = "raise"
       THEN Raise("ValueError: malformed node or string")
       ELSE Return([columns |-> frame.columns,
                    rows |-> [i \in 1..Len(frame.rows) |->
                                [frame.rows[i] EXCEPT !.items = res[i].value]]])

\* the ascending sequence of a set of integers
RECURSIVE SortedSeq(_)
SortedSeq(S) ==
    IF S = {} THEN <<>>
    ELSE LET m == CHOOSE x \in S : \A y \in S : x <= y
         IN <<m>> \o SortedSeq(S \ {m})

\* faulty variant of group_keys: sort=False, the keys in order of appearance
RECURSIVE first_seen(_, _)
first_seen(rows, acc) ==
    IF rows = <<>> THEN acc
    ELSE first_seen(Tail(rows),
                    IF Head(rows).character_id.nan
                       \/ \E i \in 1..Len(acc) : acc[i] = Head(rows).character_id.v
                    THEN acc
                    ELSE Append(acc, Head(rows).character_id.v))

group_keys_unsorted(frame) == first_seen(frame.rows, <<>>)

\* the keys of df.groupby('character_id') in iteration order: sort=True gives
\* ascending keys, dropna=True leaves out the missing key
group_keys(frame) ==
    SortedSeq({frame.rows[i].character_id.v :
                 i \in {j \in 1..Len(frame.rows) : ~frame.rows[j].character_id.nan}})

\* df.groupby('character_id'): one group per key, its rows in frame order
df_groupby(frame) ==
    LET keys == group_keys(frame)
    IN [k \in 1..Len(keys) |->
          [name |-> keys[k],
           columns |-> frame.columns,
           rows |-> SelectSeq(frame.rows,
                      LAMBDA r : ~r.character_id.nan /\ r.character_id.v = keys[k])]]

\* gp.sort_values(by=['killmail_id']): the default kind='quicksort' is not a
\* stable sort, so every ascending arrangement of the rows is a possible result
sort_values(rows) ==
    LET n == Len(rows)
        perms == {p \in [1..n -> 1..n] : \A i, j \in 1..n : i # j => p[i] # p[j]}
    IN {[i \in 1..n |-> rows[p[i]]] : p \in
          {q \in perms : \A i \in 1..n - 1 :
              rows[q[i]].killmail_id <= rows[q[i + 1]].killmail_id}}

\* .reset_index().drop('index', axis=1): the index becomes the position
reset_index(rows) == [i \in 1..Len(rows) |-> [rows[i] EXCEPT !.index = i - 1]]

\* faulty variant of shift: the series itself, as if .shift() were left out
shift_none(series) == series

\* Series.shift(): every value moves down one place, np.nan enters at the top
shift(series) ==
    [i \in 1..Len(series) |-> IF i = 1 THEN PyFloat ELSE series[i - 1]]

\* the pairs list: for i in range(1, len(gp)), (items2.iloc[i], items1.iloc[i])
make_pairs(items1, items2) ==
    [k \in 1..Len(items1) - 1 |-> <<items2[k + 1], items1[k + 1]>>]

\* DataFrame.insert(loc, column, value) on the column labels
insert(columns, loc, column) ==
    SubSeq(columns, 1, loc) \o <<column>> \o SubSeq(columns, loc + 1, Len(columns))

\* the pairs list of a group: items1 = gp['items'], items2 = items1.shift()
group_pairs(gp) ==
    make_pairs([i \in 1..Len(gp.rows) |-> gp.rows[i].items],
               shift([i \in 1..Len(gp.rows) |-> gp.rows[i].items]))

\* the outcomes of the distance calls over the pairs list
long_text_calls(pairs) ==
    [k \in 1..Len(pairs) |-> get_long_text_cosine_distance(pairs[k][1], pairs[k][2])]

short_text_calls(pairs) ==
    [k \in 1..Len(pairs) |-> get_short_text_cosine_distance(pairs[k][1], pairs[k][2])]

\* the rest of the loop body, given the outcomes of the calls.  The calls run
\* in the order lt(pair 1), st(pair 1), lt(pair 2), ...; the first that raises
\* ends the run.  Otherwise the lists start with np.nan and become the two
\* columns inserted at idx = len(gp.columns), cos_dist_lt first; insert raises
\* ValueError for a list that is not as long as the frame.
with_distances(gp, lt, st) ==
    LET bad == {k \in 1..Len(lt) : lt[k].kind = "raise" \/ st[k].kind = "raise"}
        first == CHOOSE x \in bad : \A y \in bad : x <= y
        cos_dist_lt == <<np_nan>> \o [k \in 1..Len(lt) |-> lt[k].value]
        cos_dist_st == <<np_nan>> \o [k \in 1..Len(st) |-> st[k].value]
        idx == Len(gp.columns)
    IN IF bad # {}
       THEN IF lt[first].kind = "raise" THEN lt[first] ELSE st[first]
       ELSE IF Len(cos_dist_lt) # Len(gp.rows) \/ Len(cos_dist_st) # Len(gp.rows)
       THEN Raise("ValueError: Length of values does not match length of index")
       ELSE Return(
              [name |-> gp.name,
               columns |-> insert(insert(gp.columns, idx, "cos_dist_lt"), idx, "cos_dist_st"),
               rows |-> gp.rows,
               cos_dist_st |-> cos_dist_st,
               cos_dist_lt |-> cos_dist_lt])

\* one pass of the loop body over the sorted, re-indexed group gp
score_group(gp) ==
    with_distances(gp, long_text_calls(group_pairs(gp)), short_text_calls(group_pairs(gp)))

\* pd.concat(groups): the frames one after the other, rows and the two
\* distance columns alike; an empty list raises ValueError
RECURSIVE concat_rows(_)
concat_rows(frames) ==
    IF frames = <<>> THEN <<>>
    ELSE frames[1].rows \o concat_rows(Tail(frames))

RECURSIVE concat_lt(_)
concat_lt(frames) ==
    IF frames = <<>> THEN <<>>
    ELSE frames[1].cos_dist_lt \o concat_lt(Tail(frames))

RECURSIVE concat_st(_)
concat_st(frames) ==
    IF frames = <<>> THEN <<>>
    ELSE frames[1].cos_dist_st \o concat_st(Tail(frames))

concat(frames) ==
    IF frames = <<>> THEN Raise("ValueError: No objects to concatenate")
    ELSE Return([columns |-> frames[1].columns,
                 rows |-> concat_rows(frames),
                 cos_dist_st |-> concat_st(frames),
                 cos_dist_lt |-> concat_lt(frames)])

\* DataFrame.to_csv(path): the frame with its index as a leading unnamed column
to_csv(frame) ==
    [columns |-> <<"">> \o frame.columns,
     rows |-> frame.rows,
     cos_dist_st |-> frame.cos_dist_st,
     cos_dist_lt |-> frame.cos_dist_lt,
     exists |-> TRUE]

----------------------------------------------------------------------------
(* The statements of the script *)

\* an uncaught exception ends the run
Abort(exc) ==
    /\ pc' = "error"
    /\ err' = exc

\* df = pd.read_csv('data/all_victims_complete.csv', encoding='utf-8')
ReadCsv ==
    /\ pc = "read_csv"
    /\ df' = read_csv(csv)
    /\ pc' = "drop"
    /\ UNCHANGED <<csv, err, groupby, num_groups, count, groups, df_res, out, writes, callVars>>

\* df = df.drop(columns=['HighSlotISK', 'MidSlotISK', 'LowSlotISK'])
DropColumns ==
    /\ pc = "drop"
    /\ LET r == drop(df, IskColumns)
       IN IF r.kind = "raise"
          THEN Abort(r.exc) /\ UNCHANGED df
          ELSE df' = r.value /\ pc' = "convert" /\ UNCHANGED err
    /\ UNCHANGED <<csv, groupby, num_groups, count, groups, df_res, out, writes, callVars>>

\* df['items'] = df['items'].apply(literal_eval)
ConvertItems ==
    /\ pc = "convert"
    /\ LET r == apply_literal_eval(df)
       IN IF r.kind = "raise"
          THEN Abort(r.exc) /\ UNCHANGED df
          ELSE df' = r.value /\ pc' = "groupby" /\ UNCHANGED err
    /\ UNCHANGED <<csv, groupby, num_groups, count, groups, df_res, out, writes, callVars>>

\* groupby = df.groupby('character_id'); num_groups = len(groupby); count = 0;
\* groups = []
GroupBy ==
    /\ pc = "groupby"
    /\ groupby' = df_groupby(df)
    /\ num_groups' = Len(df_groupby(df))
    /\ count' = 0
    /\ groups' = <<>>
    /\ pc' = "loop"
    /\ UNCHANGED <<csv, err, df, df_res, out, writes, callVars>>

\* the end of an iteration: the exception ends the run, or the finished
\* group is appended and counted
EndIteration(r) ==
    IF r.kind = "raise"
    THEN Abort(r.exc) /\ UNCHANGED <<groups, count>>
    ELSE /\ groups' = Append(groups, r.value)
         /\ count' = count + 1
         /\ UNCHANGED <<pc, err>>

\* one iteration of: for name, gp in groupby
ProcessGroup ==
    /\ pc = "loop"
    /\ count < Len(groupby)
    /\ \E sorted \in sort_values(groupby[count + 1].rows) :
         EndIteration(score_group([name |-> groupby[count + 1].name,
                                   columns |-> groupby[count + 1].columns,
                                   rows |-> reset_index(sorted)]))
    /\ UNCHANGED <<csv, df, groupby, num_groups, df_res, out, writes, callVars>>

\* df_res = pd.concat(groups), once the loop is over
Concat ==
    /\ pc = "loop"
    /\ count = Len(groupby)
    /\ LET r == concat(groups)
       IN IF r.kind = "raise"
          THEN Abort(r.exc) /\ UNCHANGED df_res
          ELSE df_res' = r.value /\ pc' = "to_csv" /\ UNCHANGED err
    /\ UNCHANGED <<csv, df, groupby, num_groups, count, groups, out, writes, callVars>>

\* faulty variant of ToCsv: the file is rewritten inside the loop, after each
\* finished group
ToCsvInLoop ==
    /\ pc = "loop"
    /\ groups # <<>>
    /\ out' = to_csv(concat(groups).value)
    /\ writes' = writes + 1
    /\ UNCHANGED <<csv, pc, err, df, groupby, num_groups, count, groups, df_res, callVars>>

\* df_res.to_csv('data/all_victims_distances.csv')
ToCsv ==
    /\ pc = "to_csv"
    /\ out' = to_csv(df_res)
    /\ writes' = writes + 1
    /\ pc' = "done"
    /\ UNCHANGED <<csv, err, df, groupby, num_groups, count, groups, df_res, callVars>>

Next ==
    \/ ReadCsv
    \/ DropColumns
    \/ ConvertItems
    \/ GroupBy
    \/ ProcessGroup
    \/ Concat
    \/ ToCsv

Spec == Init /\ [][Next]_vars

----------------------------------------------------------------------------
(* Properties of the score functions, checked under ScoreSpec *)

\* the missing sentinel (any value that is not a list) or a list with no entry
Degenerate(x) == x.type # "list" \/ Len(x.val) = 0

\* how often item e occurs in an item list
Occurrences(e, los) == Cardinality({i \in 1..Len(los.val) : los.val[i] = e})

\* two non-empty lists holding the same multiset of items
SameMultiset(a, b) ==
    /\ a.type = "list" /\ b.type = "list"
    /\ Len(a.val) > 0
    /\ Len(a.val) = Len(b.val)
    /\ \A e \in Items : Occurrences(e, a) = Occurrences(e, b)

\* the terms of the document built from element field of the items of a list
Terms(los, field) ==
    LET toks == analyze(document(los, field)) IN {toks[i] : i \in 1..Len(toks)}

\* C2: for a pair with a degenerate side (a non-list value or an empty list),
\* each score function, once called, has returned exactly the int 0.
C2_DegenerateIsZero ==
    (Degenerate(los1) \/ Degenerate(los2)) =>
        /\ ret_lt.kind # "none" => ret_lt = Return(Int0)
        /\ ret_st.kind # "none" => ret_st = Return(Int0)

\* C3: for two non-empty lists holding the same multiset of items, each score
\* function, once called, has returned a score equal to 1.
C3_IdenticalIsOne ==
    SameMultiset(los1, los2) =>
        /\ ret_lt.kind # "none" => ret_lt.kind = "return" /\ IsOne(ret_lt.value)
        /\ ret_st.kind # "none" => ret_st.kind = "return" /\ IsOne(ret_st.value)

\* C4: each score function, once called, has returned a value in [0, 1], and
\* 0 for two documents that share no term.
C4_ScoreInUnitInterval ==
    /\ ret_lt.kind # "none" =>
         /\ ret_lt.kind = "return"
         /\ InUnit(ret_lt.value)
         /\ (~Degenerate(los1) /\ ~Degenerate(los2)
               /\ Terms(los1, 1) \cap Terms(los2, 1) = {}) => IsZero(ret_lt.value)
    /\ ret_st.kind # "none" =>
         /\ ret_st.kind = "return"
         /\ InUnit(ret_st.value)
         /\ (~Degenerate(los1) /\ ~Degenerate(los2)
               /\ Terms(los1, 2) \cap Terms(los2, 2) = {}) => IsZero(ret_st.value)

----------------------------------------------------------------------------
(* Properties of the pipeline, checked under Spec *)

\* the rows of the converted table that carry character_id c, as file lines
LinesOf(c) ==
    {i \in 1..Len(csv.rows) : ~csv.rows[i].character_id.nan /\ csv.rows[i].character_id.v = c}

\* the value the long-text (short-text) call returns for rows i - 1 and i of g
LongOf(g, i) == get_long_text_cosine_distance(g.rows[i - 1].items, g.rows[i].items)
ShortOf(g, i) == get_short_text_cosine_distance(g.rows[i - 1].items, g.rows[i].items)

\* C1: every finished group holds exactly the records of its character_id in
\* ascending killmail_id order; each of its two score columns has one entry per
\* record, entry 0 is NaN, and entry i is the score of the pair (record i - 1,
\* record i) of that group.
C1_AdjacentPairScores ==
    \A k \in 1..Len(groups) :
        LET g == groups[k]
            n == Len(g.rows)
        IN /\ n >= 1
           /\ {g.rows[i].line : i \in 1..n} = LinesOf(g.name)
           /\ Cardinality(LinesOf(g.name)) = n
           /\ \A i \in 1..n - 1 : g.rows[i].killmail_id <= g.rows[i + 1].killmail_id
           /\ Len(g.cos_dist_lt) = n
           /\ Len(g.cos_dist_st) = n
           /\ g.cos_dist_lt[1] = np_nan
           /\ g.cos_dist_st[1] = np_nan
           /\ \A i \in 2..n :
                /\ LongOf(g, i).kind = "return"
                /\ g.cos_dist_lt[i] = LongOf(g, i).value
                /\ ShortOf(g, i).kind = "return"
                /\ g.cos_dist_st[i] = ShortOf(g, i).value

\* a finished group of three records, put in order by the sort, whose two
\* pairs score differently
C1_Witness ==
    \E k \in 1..Len(groups) :
        /\ Len(groups[k].rows) = 3
        /\ groups[k].rows[1].line = 3
        /\ IsOne(groups[k].cos_dist_lt[2])
        /\ IsZero(groups[k].cos_dist_lt[3])

\* C5: after a successful run every input row appears exactly once in the
\* output and no other row does, so the output has as many rows as the input.
C5_EveryRowOnce ==
    pc = "done" =>
        /\ Len(out.rows) = Len(csv.rows)
        /\ \A l \in 1..Len(csv.rows) :
             Cardinality({i \in 1..Len(out.rows) : out.rows[i].line = l}) = 1

\* C6: in the written output the character_id values are ascending in row
\* order, so each character's rows are contiguous and the partitions come in
\* ascending key order, and within a character_id the killmail_id values are
\* non-decreasing.
C6_OutputOrder ==
    out.exists =>
        /\ \A i, j \in 1..Len(out.rows) :
             i < j =>
               /\ out.rows[i].character_id.v <= out.rows[j].character_id.v
               /\ out.rows[i].character_id = out.rows[j].character_id =>
                    out.rows[i].killmail_id <= out.rows[j].killmail_id
        /\ \A i, j, k \in 1..Len(out.rows) :
             (i < k /\ k < j /\ out.rows[i].character_id = out.rows[j].character_id) =>
               out.rows[k].character_id = out.rows[i].character_id

\* an output of two characters whose rows the run had to reorder: the file
\* starts with character 2 and holds character 1 with killmail 2 before 1
C6_Witness ==
    /\ out.exists
    /\ Len(out.rows) = 3
    /\ csv.rows[1].character_id = Key(2)
    /\ csv.rows[2].character_id = Key(1) /\ csv.rows[2].killmail_id = 2
    /\ csv.rows[3].character_id = Key(1) /\ csv.rows[3].killmail_id = 1

\* C7: the output file is written at most once, only by a run that has
\* processed every group and met no error, and it then holds all the groups; a
\* run ended by an error has written nothing.
C7_AllOrNothing ==
    /\ writes <= 1
    /\ out.exists =>
         /\ writes = 1
         /\ pc = "done"
         /\ err = ""
         /\ count = num_groups
         /\ Len(groups) = Len(groupby)
         /\ out.rows = concat_rows(groups)
    /\ pc = "error" => ~out.exists /\ writes = 0

\* a run ended by an error in the loop after it had finished a group
C7_Witness ==
    /\ pc = "error"
    /\ err = "ValueError: empty vocabulary"
    /\ Len(groups) >= 1

\* the drop statement has run
DropRan == pc \notin {"read_csv", "drop"}

\* C8: the conversion of the items column never aborts: once it has run, a
\* cell spelling a list holds that list and a missing cell holds a sentinel
\* that is not a list.
C8_LoaderKeepsMissing ==
    /\ err # "ValueError: malformed node or string"
    /\ pc \in {"groupby", "loop", "to_csv", "done"} =>
         \A i \in 1..Len(df.rows) :
             IF csv.rows[i].items.type = "str"
             THEN df.rows[i].items = PyList(csv.rows[i].items.lit.val)
             ELSE df.rows[i].items.type # "list"

\* C9 as stated: for every subset of the three ISK columns in the file the
\* drop succeeds and leaves the other columns, in order, and none of the three.
C9_DropIgnoresAbsent ==
    DropRan =>
        /\ err # "KeyError"
        /\ df.columns = SelectSeq(csv.columns, LAMBDA c : c \notin IskColumns)

\* C9 amended: when all three ISK columns are in the file the drop succeeds and
\* leaves the other columns, in order, and none of the three; when any of them
\* is absent the drop raises KeyError and the run ends with no output.
C9_DropNeedsAllThree ==
    DropRan =>
        IF \A l \in IskColumns : \E i \in 1..Len(csv.columns) : csv.columns[i] = l
        THEN /\ err # "KeyError"
             /\ df.columns = SelectSeq(csv.columns, LAMBDA c : c \notin IskColumns)
             /\ pc = "convert" => df.rows = read_csv(csv).rows
        ELSE /\ pc = "error"
             /\ err = "KeyError"
             /\ df.columns = csv.columns
             /\ ~out.exists

\* the drop has just removed the three columns from a table with rows
C9_Witness ==
    /\ pc = "convert"
    /\ csv.columns = AllColumns
    /\ df.columns = <<"killmail_id", "character_id", "items">>
    /\ Len(df.rows) = MaxRows

\* C10: in every finished group two records with equal killmail_id stand in
\* their input order.
C10_TiesKeepInputOrder ==
    \A k \in 1..Len(groups) :
        \A i, j \in 1..Len(groups[k].rows) :
            (i < j /\ groups[k].rows[i].killmail_id = groups[k].rows[j].killmail_id) =>
                groups[k].rows[i].line < groups[k].rows[j].line

====
